---- MODULE Spec2Model ----
\* Concurrent fetch-and-aggregate pipeline of scripts/fetch_transcripts.py and
\* scripts/generate_channel_titles.py: a thread pool runs one worker per
\* submitted item, the main thread drains the futures in completion order.
EXTENDS Integers, Sequences, FiniteSets, Bags, TLC

----------------------------------------------------------------------------
\* Bounds of the model.

\* Longest item list handed to a dispatcher.
MaxN == 3
\* Largest thread pool the model runs; the scripts' ceilings are capped to it
\* so that lists longer than the pool occur.
MaxPool == 2
\* Most snippets in a transcript drawn at will.
MaxFrags == 3
\* Most rows in the CSV file, and largest chunk size besides the script's own.
MaxRows == 4
MaxChunk == 3
\* Most videos of the training data that pass, and that fail, the quality filter.
MaxValid == 11
MaxInvalid == 2
\* Most rows in the CSV file handed to the Gemini filter.
MaxVideos == 2

----------------------------------------------------------------------------
\* Program constants.

MAX_WORKERS_FETCH == 10
MAX_WORKERS_CHANNEL == 5
MIN_TRANSCRIPT_LEN == 200
PREVIEW_LEN == 200
\* filter_category_28.py
CHUNK_SIZE == 100000
CATEGORY == 28
\* train_title_model.py
SAMPLE_SIZE == 800
MIN_EXAMPLES == 10

\* Python values: None, a str, a dict (a record with its keys), a list.
None == [type |-> "NoneType"]
Str(s) == [type |-> "str", value |-> s]
List(s) == [type |-> "list", value |-> s]
Unset == [type |-> "unset"]

\* Truth value of a Python object, as "if result:" and "not x" take it: None
\* and empty strings are false; the dicts the workers build have keys.
Truthy(v) ==
    CASE v.type = "NoneType" -> FALSE
      [] v.type = "str" -> v.value # <<>>
      [] v.type = "list" -> v.value # <<>>
      [] v.type = "dict" -> TRUE

Min(a, b) == IF a <= b THEN a ELSE b

----------------------------------------------------------------------------
\* Text: a Python str is a sequence of one-character strings.

Whitespace == {" ", "\t", "\n"}

Rep(c, n) == [k \in 1..n |-> c]

RECURSIVE lstrip(_)
lstrip(s) ==
    IF s # <<>> /\ Head(s) \in Whitespace THEN lstrip(Tail(s)) ELSE s

RECURSIVE rstrip(_)
rstrip(s) ==
    IF s # <<>> /\ s[Len(s)] \in Whitespace
    THEN rstrip(SubSeq(s, 1, Len(s) - 1))
    ELSE s

\* str.strip()
strip(s) == rstrip(lstrip(s))

\* Variant of join with the empty string as separator.
RECURSIVE join_concat(_)
join_concat(texts) ==
    IF texts = <<>> THEN <<>>
    ELSE texts[1] \o join_concat(Tail(texts))

\* " ".join(snippet.text for snippet in transcript_list)
RECURSIVE join(_)
join(texts) ==
    IF texts = <<>> THEN <<>>
    ELSE IF Len(texts) = 1 THEN texts[1]
    ELSE texts[1] \o <<" ">> \o join(Tail(texts))

\* full_transcript[:200] + "..." if len(full_transcript) > 200 else full_transcript
transcript_preview(full) ==
    IF Len(full) > PREVIEW_LEN
    THEN SubSeq(full, 1, PREVIEW_LEN) \o <<".", ".", ".">>
    ELSE full

----------------------------------------------------------------------------
\* The outside world: what the external services can answer for each URL.
\* Each URL of the catalogue stands for one kind of video; where a field has
\* several answers the service gives any one of them when it is called.
\*   video_id   : answers of YouTube(url).video_id       ("ok" | "err")
\*   transcript : answers of TRANSCRIPT_API.fetch        ("ok" | "NoTranscriptFound"
\*                                                        | "TranscriptsDisabled" | "err")
\*   snippets   : the snippet texts of the transcript
\*   title      : answers of YouTube(url).title           ("ok" | "err")
\*   gen        : answers of the fine-tuned model's API   ("ok" | "err")
\*   generated  : the message content the model answers
\* "err" is any exception of class Exception other than the two transcript ones.

\* The snippet texts the transcript service can hold, by name: two that make
\* a long transcript, plain words, an empty text, a blank, texts with
\* whitespace at an end, and a text three characters short of the least
\* length the channel script asks for.
Texts ==
    [lead |-> <<" ">> \o Rep("a", 120),
     tail |-> Rep("b", 100) \o <<"\n">>,
     Hello |-> <<"H", "e", "l", "l", "o">>,
     world |-> <<"w", "o", "r", "l", "d">>,
     empty |-> <<>>,
     blank |-> <<" ">>,
     x |-> <<" ", "x">>,
     y |-> <<"y", "\n">>,
     long |-> Rep("c", MIN_TRANSCRIPT_LEN - 3)]
\* The texts of the snippets named.
TextsOf(names) == [k \in DOMAIN names |-> Texts[names[k]]]

LongSnippets == <<"lead", "tail">>
GenTitle == <<" ", "T", "\n">>
Blank == <<" ">>

Vid(va, tr, sn, ti, ga, ge) ==
    [video_id |-> va, transcript |-> tr, snippets |-> sn, title |-> ti,
     gen |-> ga, generated |-> ge]

World ==
    [\* a video with a long transcript: every call succeeds
     A |-> Vid({"ok"}, {"ok"}, LongSnippets, {"ok"}, {"ok"}, GenTitle),
     \* a video without transcript
     B |-> Vid({"ok"}, {"NoTranscriptFound", "TranscriptsDisabled"}, <<>>,
               {"ok"}, {"ok"}, GenTitle),
     \* a video whose transcript has no snippet
     C |-> Vid({"ok"}, {"ok"}, <<>>, {"ok"}, {"ok"}, GenTitle),
     \* a video for which some call fails: any call may be the one, the last
     \* one fails when none did before (no title, and no usable generated title)
     F |-> Vid({"ok", "err"}, {"ok", "err"}, LongSnippets, {"err"}, {"ok", "err"}, Blank)]

URLS == DOMAIN World

\* The canonical key and the title the metadata client gives for a URL.
VideoIdOf(url) == <<"id", url>>
TitleOf(url) == <<"title", url>>

\* An entry of get_channel_videos: {"url", "video_id", "title"}
VideoInfo(url) == [url |-> url, video_id |-> VideoIdOf(url), title |-> TitleOf(url)]

\* The transcript client is keyed by the canonical key.
UrlOfVideoId(vid) == vid[2]

----------------------------------------------------------------------------
\* State.

VARIABLES
    script,            \* "fetch" (fetch_transcripts.py) or "channel" (generate_channel_titles.py)
    source,            \* the raw item source: lines of urls.txt / the channel's videos
    pc,                \* position of the main thread
    items,             \* youtube_urls / videos: the list handed to the dispatcher
    nsub,              \* number of futures created so far (future_to_url)
    fstate,            \* state of each future: NEW, PENDING, RUNNING, FINISHED
    at,                \* position of each worker inside its function
    loc,               \* local variables of each worker invocation
    outcome,           \* what each future holds: a returned value or an exception
    calls,             \* number of times the worker function was entered, per future
    caught,            \* the exception each worker invocation caught ("none" if none)
    answered,          \* what the latest external call of each worker invocation came back with
    installed,         \* as_completed has installed its waiter
    finished,          \* as_completed: futures already finished when it was called
    finished_futures,  \* waiter.finished_futures: futures in completion order
    completed,         \* the futures that finished while a call was hung and are
                       \* not yet yielded, in the order they finished
    yielded,           \* futures as_completed has handed to the loop
    ndone,             \* the progress bar's counter
    all_videos_data,   \* the output list (all_results in the channel script)
    log,               \* bag of the log lines printed
    ret,               \* what the dispatcher returned
    transcripts,       \* the transcript service: the snippet texts it holds per video
    hang,              \* the videos whose transcript request never comes back
    \* filter_category_28.py
    fpc,               \* position of main()
    csv,               \* the rows of the CSV file
    chunk_size,        \* rows read per chunk
    nread,             \* rows the reader has handed out so far
    filtered_chunks,   \* the non-empty filtered chunks
    stdout,            \* the rows written to standard output
    \* train_title_model.py
    tpc,               \* position of the script
    videos,            \* the training data: how many videos pass / fail the quality filter
    jsonl,             \* the local JSONL file exists
    clean_examples_count,  \* examples written to the JSONL file
    training_file,     \* what prepare_training_data returned
    train_called,      \* train_model was called
    uploaded,          \* the upload to the API succeeded
    job,               \* a fine-tuning job was created
    trained,           \* what train_model returned
    \* filter_videos_with_gemini.py
    gpc,               \* position of main()
    df,                \* the rows read from the CSV file
    replies,           \* what the Gemini API did at each call so far
    keep_decisions,    \* the decisions recorded so far
    reasons,           \* the reasons recorded so far
    kept_df,           \* the rows saved as kept
    removed_df         \* the rows saved as removed

pipeline_vars == <<script, source, pc, items, nsub, fstate, at, loc, outcome, calls, caught, answered,
          installed, finished, finished_futures, completed, yielded, ndone,
          all_videos_data, log, ret, transcripts, hang>>

filter_vars == <<fpc, csv, chunk_size, nread, filtered_chunks, stdout>>

train_vars == <<tpc, videos, jsonl, clean_examples_count, training_file, train_called,
                uploaded, job, trained>>

gemini_vars == <<gpc, df, replies, keep_decisions, reasons, kept_df, removed_df>>

vars == <<pipeline_vars, filter_vars, train_vars, gemini_vars>>

\* What the pipeline scripts do not touch: the state of the other scripts.
others == <<filter_vars, train_vars, gemini_vars>>

\* The services outside the program: no step of the program changes them.
env == <<transcripts, hang>>

N == Len(items)
Futures == 1..N
\* The futures of future_to_url: one per item submitted so far.
Submitted == 1..nsub

\* ThreadPoolExecutor(max_workers=MAX_WORKERS), capped to the model's pool bound.
MAX_WORKERS ==
    IF script = "fetch" THEN Min(MAX_WORKERS_FETCH, MaxPool)
    ELSE Min(MAX_WORKERS_CHANNEL, MaxPool)

Running == {i \in Futures : fstate[i] = "RUNNING"}
\* The futures whose worker waits for a transcript request that never comes back.
Hung == {i \in Running : at[i] = "fetch" /\ items[i] \in hang}
InFlight == Cardinality(Running)

NoOutcome == [kind |-> "none", value |-> None]
Returned(v) == [kind |-> "result", value |-> v]
Raised(e) == [kind |-> "exception", value |-> e]

\* A printed line: its kind (the fixed words of the message) and the text it
\* names the item with: <<"url", u>>, <<"title", u>>, or <<>> when it names none.
Line(kind, names) == [kind |-> kind, names |-> names]
UrlText(url) == <<"url", url>>
\* print(...): the lines ls are added to the log.
Emit(ls) == log (+) ls
OneLine(l) == SetToBag({l})

\* Sequences over S of length at most n.
SeqUpTo(S, n) == UNION {[1..k -> S] : k \in 0..n}

\* All orderings of a finite set, as sequences.
Orderings(S) ==
    {f \in [1..Cardinality(S) -> S] : \A x \in S : \E k \in DOMAIN f : f[k] = x}

Range(f) == {f[k] : k \in DOMAIN f}

\* The program before its main block has run.
Start ==
    /\ pc = "main"
    /\ items = <<>>
    /\ nsub = 0
    /\ fstate = <<>>
    /\ at = <<>>
    /\ loc = <<>>
    /\ outcome = <<>>
    /\ calls = <<>>
    /\ caught = <<>>
    /\ answered = <<>>
    /\ installed = FALSE
    /\ finished = {}
    /\ finished_futures = <<>>
    /\ completed = <<>>
    /\ yielded = {}
    /\ ndone = 0
    /\ all_videos_data = <<>>
    /\ log = EmptyBag
    /\ ret = Unset

\* filter_category_28.py is not running.
FilterOff ==
    /\ fpc = "off"
    /\ csv = <<>>
    /\ chunk_size = 0
    /\ nread = 0
    /\ filtered_chunks = <<>>
    /\ stdout = Unset

\* train_title_model.py is not running.
TrainOff ==
    /\ tpc = "off"
    /\ videos = [valid |-> 0, invalid |-> 0]
    /\ jsonl = FALSE
    /\ clean_examples_count = 0
    /\ training_file = Unset
    /\ train_called = FALSE
    /\ uploaded = FALSE
    /\ job = FALSE
    /\ trained = Unset

\* filter_videos_with_gemini.py is not running.
GeminiOff ==
    /\ gpc = "off"
    /\ df = <<>>
    /\ replies = <<>>
    /\ keep_decisions = <<>>
    /\ reasons = <<>>
    /\ kept_df = <<>>
    /\ removed_df = <<>>

\* The transcripts of the catalogue.
Catalogue == [u \in URLS |-> World[u].snippets]

Init ==
    /\ script \in {"fetch", "channel"}
    /\ source \in SeqUpTo(URLS, MaxN)
    /\ transcripts = Catalogue
    /\ hang = {}
    /\ Start
    /\ FilterOff
    /\ TrainOff
    /\ GeminiOff

\* The dispatcher is entered with list l.
Enter(l) ==
    /\ items' = l
    /\ fstate' = [i \in 1..Len(l) |-> "NEW"]
    /\ at' = [i \in 1..Len(l) |-> "-"]
    /\ loc' = [i \in 1..Len(l) |-> <<>>]
    /\ outcome' = [i \in 1..Len(l) |-> NoOutcome]
    /\ calls' = [i \in 1..Len(l) |-> 0]
    /\ caught' = [i \in 1..Len(l) |-> "none"]
    /\ answered' = [i \in 1..Len(l) |-> "-"]
    /\ pc' = "submit"

\* fetch_transcripts.py __main__: read the lines, drop duplicates with
\* list(set(...)) (whose order is arbitrary; the list of lines is overwritten),
\* call fetch_transcripts.
MainFetch ==
    /\ pc = "main" /\ script = "fetch"
    /\ \E l \in Orderings(Range(source)) : Enter(l)
    /\ source' = <<>>
    /\ UNCHANGED <<others, env, completed, script, nsub, installed, finished, finished_futures,
                   yielded, ndone, all_videos_data, log, ret>>

\* process_channel_videos: videos = get_channel_videos(...); an empty list
\* returns [] at once, otherwise the list is dispatched as it is.
MainChannel ==
    /\ pc = "main" /\ script = "channel"
    /\ IF source = <<>>
       THEN /\ pc' = "returned"
            /\ ret' = List(<<>>)
            /\ items' = <<>>
            /\ UNCHANGED <<fstate, at, loc, outcome, calls, caught, answered>>
       ELSE /\ Enter(source)
            /\ ret' = ret
    /\ source' = <<>>
    /\ UNCHANGED <<others, env, completed, script, nsub, installed, finished, finished_futures,
                   yielded, ndone, all_videos_data, log>>

\* Variant of Exhausted that stops the comprehension one item short.
Exhausted_early == nsub >= N - 1

\* "for url in youtube_urls" has gone through the whole list.
Exhausted == nsub >= N

\* executor.submit(worker, item) for the next item of the list.
Submit ==
    /\ pc = "submit"
    /\ ~Exhausted
    /\ nsub' = nsub + 1
    /\ fstate' = [fstate EXCEPT ![nsub + 1] = "PENDING"]
    /\ UNCHANGED <<others, env, completed, answered, script, source, pc, items, at, loc, outcome, calls, caught,
                   installed, finished, finished_futures, yielded, ndone,
                   all_videos_data, log, ret>>

----------------------------------------------------------------------------
\* The thread pool.

\* A pool thread takes the oldest queued work item (the queue is FIFO) and
\* enters the worker function; the pool never has more than max_workers threads.
FirstStep == IF script = "fetch" THEN "video_id" ELSE "fetch"

\* Variant of WorkerStart for a pool that starts a thread for every work item.
WorkerStart_unbounded(i) ==
    /\ fstate[i] = "PENDING"
    /\ \A j \in Futures : fstate[j] = "PENDING" => i <= j
    /\ fstate' = [fstate EXCEPT ![i] = "RUNNING"]
    /\ at' = [at EXCEPT ![i] = FirstStep]
    /\ calls' = [calls EXCEPT ![i] = @ + 1]
    /\ UNCHANGED <<others, env, completed, answered, script, source, pc, items, nsub, loc, outcome, caught, installed,
                   finished, finished_futures, yielded, ndone, all_videos_data,
                   log, ret>>

WorkerStart(i) ==
    /\ fstate[i] = "PENDING"
    /\ \A j \in Futures : fstate[j] = "PENDING" => i <= j
    /\ InFlight < MAX_WORKERS
    /\ fstate' = [fstate EXCEPT ![i] = "RUNNING"]
    /\ at' = [at EXCEPT ![i] = FirstStep]
    /\ calls' = [calls EXCEPT ![i] = @ + 1]
    /\ UNCHANGED <<others, env, completed, answered, script, source, pc, items, nsub, loc, outcome, caught, installed,
                   finished, finished_futures, yielded, ndone, all_videos_data,
                   log, ret>>

\* Variant of Finish in which the waiter is not told of the completion.
Finish_no_notify(i, out, exc, lines) ==
    /\ fstate' = [fstate EXCEPT ![i] = "FINISHED"]
    /\ caught' = [caught EXCEPT ![i] = exc]
    /\ at' = [at EXCEPT ![i] = "-"]
    /\ loc' = [loc EXCEPT ![i] = <<>>]
    /\ outcome' = [outcome EXCEPT ![i] = out]
    /\ log' = Emit(lines)
    /\ finished_futures' = finished_futures
    /\ completed' = IF Hung # {} THEN Append(completed, i) ELSE completed

\* The worker function of future i ends with outcome out after printing lines:
\* the future becomes FINISHED and an installed waiter records the completion.
Finish(i, out, exc, lines) ==
    /\ fstate' = [fstate EXCEPT ![i] = "FINISHED"]
    /\ caught' = [caught EXCEPT ![i] = exc]
    /\ at' = [at EXCEPT ![i] = "-"]
    /\ loc' = [loc EXCEPT ![i] = <<>>]
    /\ outcome' = [outcome EXCEPT ![i] = out]
    /\ log' = Emit(lines)
    /\ finished_futures' =
           IF installed THEN Append(finished_futures, i) ELSE finished_futures
    /\ completed' = IF Hung # {} THEN Append(completed, i) ELSE completed

\* The worker function of future i moves on to step s with locals l.
Continue(i, s, l, lines) ==
    /\ at' = [at EXCEPT ![i] = s]
    /\ loc' = [loc EXCEPT ![i] = l]
    /\ log' = Emit(lines)
    /\ UNCHANGED <<fstate, outcome, caught, finished_futures, completed>>

\* What a step of a worker function does: stay in the function or leave it.
\* (exc is the exception an except clause of the function caught, if any.)
Go(s, l, lines) ==
    [next |-> s, loc |-> l, out |-> NoOutcome, exc |-> "none", lines |-> lines]
Leave(out, exc, lines) ==
    [next |-> "-", loc |-> <<>>, out |-> out, exc |-> exc, lines |-> lines]

\* Variant of Apply in which the worker itself appends its record to the
\* output list.
Apply_shared_list(i, step) ==
    /\ IF step.next = "-"
       THEN Finish(i, step.out, step.exc, step.lines)
       ELSE Continue(i, step.next, step.loc, step.lines)
    /\ UNCHANGED <<others, env, script, source, pc, items, nsub, calls, installed, finished,
                   yielded, ndone, ret>>
    /\ all_videos_data' =
           IF step.next = "-" /\ Truthy(step.out.value)
           THEN Append(all_videos_data, step.out.value)
           ELSE all_videos_data

\* A step of the worker function of future i.
Apply(i, step) ==
    /\ IF step.next = "-"
       THEN Finish(i, step.out, step.exc, step.lines)
       ELSE Continue(i, step.next, step.loc, step.lines)
    /\ UNCHANGED <<others, env, script, source, pc, items, nsub, calls, installed, finished,
                   yielded, ndone, all_videos_data, ret>>

----------------------------------------------------------------------------
\* process_single_url (fetch_transcripts.py).

Benign == {"NoTranscriptFound", "TranscriptsDisabled"}

\* Variant of psu_except without the "except Exception" clause: the exception
\* leaves the function.
psu_except_reraise(url, e) ==
    IF e \in Benign
    THEN Leave(Returned(None), e, EmptyBag)
    ELSE Leave(Raised(e), e, OneLine(Line("ERROR", UrlText(url))))

\* Variant of psu_except with a single "except Exception" clause: the two
\* transcript conditions are printed as errors too.
psu_except_log_benign(url, e) ==
    Leave(Returned(None), e, OneLine(Line("ERROR", UrlText(url))))

\* The except clauses of process_single_url for exception e.
psu_except(url, e) ==
    IF e \in Benign
    THEN Leave(Returned(None), e, EmptyBag)
    ELSE Leave(Returned(None), e, OneLine(Line("ERROR", UrlText(url))))

\* video_id = YouTube(url).video_id, the metadata client answering ans
psu_video_id(url, l, ans) ==
    IF ans = "ok"
    THEN Go("fetch", [video_id |-> VideoIdOf(url)], EmptyBag)
    ELSE psu_except(url, ans)

\* Variant of psu_fetch that treats a missing transcript as an empty one and
\* goes on to the title.
psu_fetch_skip_on(url, l, ans) ==
    IF ans = "ok"
    THEN Go("title",
            [video_id |-> l.video_id,
             transcript_list |-> TextsOf(transcripts[UrlOfVideoId(l.video_id)])],
            EmptyBag)
    ELSE IF ans \in Benign
    THEN Go("title", [video_id |-> l.video_id, transcript_list |-> <<>>], EmptyBag)
    ELSE psu_except(url, ans)

\* transcript_list = TRANSCRIPT_API.fetch(video_id), the transcript client
\* answering ans
psu_fetch(url, l, ans) ==
    IF ans = "ok"
    THEN Go("title",
            [video_id |-> l.video_id,
             transcript_list |-> TextsOf(transcripts[UrlOfVideoId(l.video_id)])],
            EmptyBag)
    ELSE psu_except(url, ans)

\* Variant of psu_title that gives up on an empty transcript text, as the
\* channel script does.
psu_title_nonempty(url, l, ans) ==
    IF ans = "ok"
    THEN LET full_transcript == join(l.transcript_list) IN
         IF strip(full_transcript) = <<>>
         THEN Leave(Returned(None), "none", EmptyBag)
         ELSE Leave(Returned([type |-> "dict",
                              url |-> url,
                              video_id |-> l.video_id,
                              title |-> TitleOf(url),
                              full_transcript |-> strip(full_transcript)]),
                    "none", EmptyBag)
    ELSE psu_except(url, ans)

\* video_title = YouTube(url).title, then the join and the returned dict
psu_title(url, l, ans) ==
    IF ans = "ok"
    THEN LET full_transcript == join(l.transcript_list) IN
         Leave(Returned([type |-> "dict",
                         url |-> url,
                         video_id |-> l.video_id,
                         title |-> TitleOf(url),
                         full_transcript |-> strip(full_transcript)]),
               "none", EmptyBag)
    ELSE psu_except(url, ans)

\* One external call of future i came back with ans and the function went on
\* as step says.
Call(i, ans, step) ==
    /\ Apply(i, step)
    /\ answered' = [answered EXCEPT ![i] = ans]

process_single_url(i) ==
    /\ script = "fetch"
    /\ fstate[i] = "RUNNING"
    /\ LET url == items[i] IN
       \/ /\ at[i] = "video_id"
          /\ \E ans \in World[url].video_id : Call(i, ans, psu_video_id(url, loc[i], ans))
       \/ /\ at[i] = "fetch"
          /\ UrlOfVideoId(loc[i].video_id) \notin hang
          /\ \E ans \in World[UrlOfVideoId(loc[i].video_id)].transcript :
                 Call(i, ans, psu_fetch(url, loc[i], ans))
       \/ /\ at[i] = "title"
          /\ \E ans \in World[url].title : Call(i, ans, psu_title(url, loc[i], ans))

----------------------------------------------------------------------------
\* generate_title (generate_titles.py), the model's API answering ans: the
\* stripped message content, or None after printing an error that names no video.
generate_title(content, ans) ==
    IF ans = "ok"
    THEN [value |-> Str(strip(content)), lines |-> EmptyBag]
    ELSE [value |-> None, lines |-> OneLine(Line("ERROR generating title", <<>>))]

\* process_single_video (generate_channel_titles.py).

\* Variant of psv_except that prints nothing.
psv_except_silent(video_info, e) ==
    Leave(Returned(None), e, EmptyBag)

\* The outer except clause of process_single_video.
psv_except(video_info, e) ==
    Leave(Returned(None), e, OneLine(Line("ERROR", video_info.title)))

\* Variant of psv_fetch whose length test also turns away a text of exactly
\* the least length.
psv_fetch_longer_only(video_info, l, ans) ==
    LET snippets == TextsOf(transcripts[UrlOfVideoId(video_info.video_id)])
        full_transcript == strip(join(snippets))
    IN  IF ans \in Benign
        THEN Leave(Returned(None), ans,
                   OneLine(Line("No transcript available", video_info.title)))
        ELSE IF ans # "ok"
        THEN psv_except(video_info, ans)
        ELSE IF full_transcript = <<>> \/ Len(full_transcript) <= MIN_TRANSCRIPT_LEN
        THEN Leave(Returned(None), "none",
                   OneLine(Line("Transcript too short", video_info.title)))
        ELSE Go("generate", [full_transcript |-> full_transcript],
                OneLine(Line("Generating title", video_info.title)))

\* The transcript fetch with its own except clause, and the length test.
psv_fetch(video_info, l, ans) ==
    LET snippets == TextsOf(transcripts[UrlOfVideoId(video_info.video_id)])
        full_transcript == strip(join(snippets))
    IN  IF ans \in Benign
        THEN Leave(Returned(None), ans,
                   OneLine(Line("No transcript available", video_info.title)))
        ELSE IF ans # "ok"
        THEN psv_except(video_info, ans)
        ELSE IF full_transcript = <<>> \/ Len(full_transcript) < MIN_TRANSCRIPT_LEN
        THEN Leave(Returned(None), "none",
                   OneLine(Line("Transcript too short", video_info.title)))
        ELSE Go("generate", [full_transcript |-> full_transcript],
                OneLine(Line("Generating title", video_info.title)))

\* recommended_title = generate_title(...), then the returned dict
psv_generate(video_info, l, ans) ==
    LET g == generate_title(World[video_info.url].generated, ans)
        recommended_title == g.value
    IN  IF ~Truthy(recommended_title)
        THEN Leave(Returned(None), "none",
                   g.lines (+) OneLine(Line("Failed to generate title", video_info.title)))
        ELSE Leave(Returned([type |-> "dict",
                             url |-> video_info.url,
                             video_id |-> video_info.video_id,
                             original_title |-> video_info.title,
                             recommended_title |-> recommended_title.value,
                             transcript_length |-> Len(l.full_transcript),
                             transcript_preview |-> transcript_preview(l.full_transcript)]),
                   "none", g.lines)

process_single_video(i) ==
    /\ script = "channel"
    /\ fstate[i] = "RUNNING"
    /\ LET video_info == VideoInfo(items[i]) IN
       \/ /\ at[i] = "fetch"
          /\ UrlOfVideoId(video_info.video_id) \notin hang
          /\ \E ans \in World[UrlOfVideoId(video_info.video_id)].transcript :
                 Call(i, ans, psv_fetch(video_info, loc[i], ans))
       \/ /\ at[i] = "generate"
          /\ \E ans \in World[video_info.url].gen :
                 Call(i, ans, psv_generate(video_info, loc[i], ans))

----------------------------------------------------------------------------
\* The aggregation loop of the dispatcher.

\* as_completed(future_to_url), once the comprehension is complete: note the
\* futures that are already finished and install the waiter that records
\* later completions in order.
AsCompleted ==
    /\ pc = "submit"
    /\ Exhausted
    /\ finished' = {i \in Submitted : fstate[i] = "FINISHED"}
    /\ installed' = TRUE
    /\ pc' = "loop"
    /\ UNCHANGED <<others, env, completed, answered, script, source, items, nsub, fstate, at, loc, outcome, calls, caught,
                   finished_futures, yielded, ndone, all_videos_data, log, ret>>

\* Variant of NextYield that hands out the futures in submission order, as a
\* loop over the futures calling result() on each would.
NextYield_in_submission_order ==
    {i \in Submitted : i = ndone + 1 /\ fstate[i] = "FINISHED"}

\* The futures as_completed can yield next: any of those finished at the call
\* (they are removed as they are yielded), and after them the head of the
\* waiter's list.
NextYield ==
    IF finished # {} THEN finished
    ELSE IF finished_futures # <<>> THEN {Head(finished_futures)}
    ELSE {}

\* Variant of Aggregate without the "if result:" test.
Aggregate_always(data, result) == Append(data, result)

\* Variant of Aggregate that starts the list afresh after a result of None.
Aggregate_reset(data, result) ==
    IF Truthy(result) THEN Append(data, result) ELSE <<>>

\* "if result:" of the loop body: the list after one future's result.
Aggregate(data, result) ==
    IF Truthy(result) THEN Append(data, result) ELSE data

\* Variant of tqdm_update that counts the tasks that gave a record only.
tqdm_update_on_record(n, out) ==
    IF out.kind = "result" /\ Truthy(out.value) THEN n + 1 ELSE n

\* tqdm(as_completed(...), total=len(...)): the bar counts every future the
\* iterator hands to the loop, before the loop body looks at its outcome out.
tqdm_update(n, out) == n + 1

\* One round of "for future in progress_bar": the progress bar advances,
\* result = future.result() (which re-raises what the worker raised), and the
\* result is appended when it is truthy.
LoopBody(i) ==
    /\ pc = "loop"
    /\ i \in NextYield
    /\ yielded' = yielded \cup {i}
    /\ finished' = finished \ {i}
    /\ finished_futures' =
           IF i \in finished THEN finished_futures ELSE Tail(finished_futures)
    /\ completed' = SelectSeq(completed, LAMBDA j : j # i)
    /\ ndone' = tqdm_update(ndone, outcome[i])
    /\ IF outcome[i].kind = "exception"
       THEN /\ pc' = "unwinding"
            /\ UNCHANGED all_videos_data
       ELSE /\ all_videos_data' = Aggregate(all_videos_data, outcome[i].value)
            /\ pc' = pc
    /\ UNCHANGED <<others, env, answered, script, source, items, nsub, fstate, at, loc, outcome, calls, caught,
                   installed, log, ret>>

\* Variant of Return that leaves the loop as soon as no finished future is at
\* hand and shuts the pool down without waiting (shutdown(wait=False)).
Return_no_wait ==
    /\ pc = "loop" /\ NextYield = {}
    /\ pc' = "returned"
    /\ ret' = List(all_videos_data)
    /\ UNCHANGED <<others, env, completed, answered, script, source, items, nsub, fstate, at, loc, outcome, calls, caught,
                   installed, finished, finished_futures, yielded, ndone,
                   all_videos_data, log>>

\* The with block ends, after the loop is exhausted (every future was
\* yielded) or by an exception out of the loop body: executor.shutdown(wait=True)
\* joins the pool threads, which run every submitted work item to its end;
\* then "return all_videos_data" follows or the exception propagates.
Return ==
    /\ \/ pc = "loop" /\ yielded = Submitted
       \/ pc = "unwinding"
    /\ \A i \in Submitted : fstate[i] = "FINISHED"
    /\ IF pc = "unwinding"
       THEN /\ pc' = "raised"
            /\ ret' = ret
       ELSE /\ pc' = "returned"
            /\ ret' = List(all_videos_data)
    /\ UNCHANGED <<others, env, completed, answered, script, source, items, nsub, fstate, at, loc, outcome, calls, caught,
                   installed, finished, finished_futures, yielded, ndone,
                   all_videos_data, log>>

----------------------------------------------------------------------------
Worker ==
    \E i \in Futures :
        \/ WorkerStart(i)
        \/ process_single_url(i)
        \/ process_single_video(i)

Dispatcher ==
    \/ MainFetch
    \/ MainChannel
    \/ Submit
    \/ AsCompleted
    \/ \E i \in Futures : LoopBody(i)
    \/ Return

Next == Dispatcher \/ Worker

Spec == Init /\ [][Next]_vars

\* The operating system schedules every thread that can run and every external
\* call comes back: a step that stays possible is eventually taken.
\* The runs are those over a deduplicated item source drawn from a video that
\* succeeds, one that is skipped and one that fails.
LiveURLS == {"A", "B", "F"}
LiveInit ==
    /\ Init
    /\ Range(source) \subseteq LiveURLS
    /\ Cardinality(Range(source)) = Len(source)
LiveSpec == LiveInit /\ [][Next]_vars /\ WF_vars(Next)

\* Runs in which the transcript request of no video, of one (B) or of two (A
\* and B) never comes back, over a deduplicated item source that holds them;
\* every other call comes back and every thread that can run is scheduled.
HangInit ==
    /\ script \in {"fetch", "channel"}
    /\ source \in SeqUpTo(LiveURLS, MaxN)
    /\ Cardinality(Range(source)) = Len(source)
    /\ hang \in {{}, {"B"}, {"A", "B"}}
    /\ hang \subseteq Range(source)
    /\ transcripts = Catalogue
    /\ Start
    /\ FilterOff
    /\ TrainOff
    /\ GeminiOff
HangSpec == HangInit /\ [][Next]_vars /\ WF_vars(Next)

\* One video whose transcript is any sequence of at most MaxFrags snippets
\* drawn from Fragments. The video is one for which every call succeeds (A) or
\* any call may fail (F), or one without transcript (B).
Fragments == {"Hello", "world", "empty", "blank", "x", "y", "long"}
UnitInit ==
    /\ script \in {"fetch", "channel"}
    /\ \E u \in {"A", "B", "F"} :
           /\ source = <<u>>
           /\ \E t \in SeqUpTo(Fragments, MaxFrags) :
                  /\ u = "B" => t = Catalogue[u]
                  /\ transcripts = [v \in {u} |-> t]
    /\ hang = {}
    /\ Start
    /\ FilterOff
    /\ TrainOff
    /\ GeminiOff
UnitSpec == UnitInit /\ [][Next]_vars

----------------------------------------------------------------------------
\* filter_category_28.py: the CSV file is read in chunks, each chunk is
\* filtered, the filtered chunks are concatenated, duplicates are dropped and
\* the result is written to standard output.

\* A row of the file: the two columns the script looks at, a column that
\* tells the rows of one video apart (each row has its own trending_date) and
\* a column that is not among OUTPUT_COLUMNS.
VideoIds == {"v1", "v2"}
Categories == {CATEGORY, 10}
Row(v, c, k) == [video_id |-> v, categoryId |-> c, trending_date |-> k, description |-> "d"]

\* The files of n rows.
Files(n) ==
    {[k \in 1..n |-> Row(f[k][1], f[k][2], k)] : f \in [1..n -> VideoIds \X Categories]}

\* filtered_chunk[OUTPUT_COLUMNS]
OUTPUT_COLUMNS(row) ==
    [video_id |-> row.video_id, categoryId |-> row.categoryId,
     trending_date |-> row.trending_date]

\* chunk[chunk['categoryId'] == 28], with the columns selected
filter(chunk) ==
    LET kept == SelectSeq(chunk, LAMBDA row : row.categoryId = CATEGORY)
    IN  [k \in DOMAIN kept |-> OUTPUT_COLUMNS(kept[k])]

\* pd.concat(filtered_chunks, ignore_index=True)
RECURSIVE concat(_)
concat(chunks) ==
    IF chunks = <<>> THEN <<>> ELSE Head(chunks) \o concat(Tail(chunks))

\* Variant of drop_duplicates with keep='last'.
RECURSIVE drop_duplicates_keep_last(_)
drop_duplicates_keep_last(result_df) ==
    IF result_df = <<>> THEN <<>>
    ELSE LET rest == drop_duplicates_keep_last(Tail(result_df)) IN
         IF \E k \in DOMAIN rest : rest[k].video_id = Head(result_df).video_id
         THEN rest
         ELSE <<Head(result_df)>> \o rest

\* result_df.drop_duplicates(subset='video_id', keep='first')
RECURSIVE drop_duplicates(_)
drop_duplicates(result_df) ==
    IF result_df = <<>> THEN <<>>
    ELSE LET first == Head(result_df) IN
         <<first>> \o drop_duplicates(SelectSeq(Tail(result_df),
                                                LAMBDA row : row.video_id # first.video_id))

\* The chunk sizes: the script's own, under which a file of the model is one
\* chunk, and the small ones that cut the file.
ChunkSizes == (1..MaxChunk) \cup {CHUNK_SIZE}

\* The pipeline scripts are not running.
PipelineOff ==
    /\ script = "-"
    /\ source = <<>>
    /\ transcripts = <<>>
    /\ hang = {}
    /\ Start

FilterInit ==
    /\ fpc = "reading"
    /\ csv \in UNION {Files(n) : n \in 0..MaxRows}
    /\ chunk_size \in ChunkSizes
    /\ nread = 0
    /\ filtered_chunks = <<>>
    /\ stdout = Unset
    /\ PipelineOff
    /\ TrainOff
    /\ GeminiOff

\* One round of "for chunk in pd.read_csv(..., chunksize=chunk_size)".
ReadChunk ==
    /\ fpc = "reading"
    /\ nread < Len(csv)
    /\ LET chunk == SubSeq(csv, nread + 1, Min(nread + chunk_size, Len(csv)))
           filtered_chunk == filter(chunk)
       IN  /\ nread' = nread + Len(chunk)
           /\ filtered_chunks' =
                  IF filtered_chunk # <<>> THEN Append(filtered_chunks, filtered_chunk)
                  ELSE filtered_chunks
    /\ UNCHANGED <<fpc, csv, chunk_size, stdout, pipeline_vars, train_vars, gemini_vars>>

\* After the last chunk: exit without output when nothing was kept, otherwise
\* concatenate, drop the duplicates and write the result.
WriteResult ==
    /\ fpc = "reading"
    /\ nread = Len(csv)
    /\ IF filtered_chunks = <<>>
       THEN /\ fpc' = "exit0"
            /\ stdout' = stdout
       ELSE /\ fpc' = "done"
            /\ stdout' = List(drop_duplicates(concat(filtered_chunks)))
    /\ UNCHANGED <<csv, chunk_size, nread, filtered_chunks, pipeline_vars, train_vars, gemini_vars>>

FilterNext == ReadChunk \/ WriteResult

FilterSpec == FilterInit /\ [][FilterNext]_vars

----------------------------------------------------------------------------
\* train_title_model.py: prepare_training_data writes the JSONL file and
\* returns its path, train_model uploads it, removes it and creates the job.

JSONL_PATH == Str(<<"openai_title_training_data.jsonl">>)
JOB_ID == Str(<<"job.id">>)

TrainInit ==
    /\ tpc = "main"
    /\ videos \in [valid : 0..MaxValid, invalid : 0..MaxInvalid]
    /\ jsonl = FALSE
    /\ clean_examples_count = 0
    /\ training_file = Unset
    /\ train_called = FALSE
    /\ uploaded = FALSE
    /\ job = FALSE
    /\ trained = Unset
    /\ PipelineOff
    /\ FilterOff
    /\ GeminiOff

\* Variant of TooFew that takes a single example for enough.
TooFew_unless_one(count) == count < 1

\* "if clean_examples_count < 10"
TooFew(count) == count < MIN_EXAMPLES

\* prepare_training_data(TRAINING_DATA_PATH, SAMPLE_SIZE), the read of the
\* training data answering ans: None when the file is missing or is not JSON;
\* otherwise a sample of the videos that pass the quality filter is written to
\* the JSONL file, one example each, and the path is returned unless the
\* examples are too few (the file stays).
prepare_training_data ==
    /\ tpc = "main"
    /\ \E ans \in {"ok", "FileNotFoundError", "JSONDecodeError"} :
           IF ans # "ok"
           THEN /\ training_file' = None
                /\ UNCHANGED <<jsonl, clean_examples_count>>
           ELSE LET valid_videos == videos.valid
                    sample_size == Min(valid_videos, SAMPLE_SIZE)
                IN  /\ jsonl' = TRUE
                    /\ clean_examples_count' = sample_size
                    /\ training_file' = IF TooFew(sample_size) THEN None ELSE JSONL_PATH
    /\ tpc' = "prepared"
    /\ UNCHANGED <<videos, train_called, uploaded, job, trained, pipeline_vars, filter_vars, gemini_vars>>

\* "if training_file: train_model(training_file)"; train_model's own test
\* of its argument follows.
CallTrain ==
    /\ tpc = "prepared"
    /\ IF Truthy(training_file)
       THEN /\ train_called' = TRUE
            /\ tpc' = "upload"
       ELSE /\ train_called' = FALSE
            /\ tpc' = "end"
    /\ UNCHANGED <<videos, jsonl, clean_examples_count, training_file, uploaded, job,
                   trained, pipeline_vars, filter_vars, gemini_vars>>

\* A step of train_model's try block: on an exception the except clause
\* prints it and the function returns None.
TrainFails ==
    /\ trained' = None
    /\ tpc' = "end"

\* client.files.create(file=f, purpose="fine-tune")
Upload ==
    /\ tpc = "upload"
    /\ \E ans \in {"ok", "err"} :
           IF ans = "ok"
           THEN uploaded' = TRUE /\ tpc' = "remove" /\ trained' = trained
           ELSE uploaded' = uploaded /\ TrainFails
    /\ UNCHANGED <<videos, jsonl, clean_examples_count, training_file, train_called, job,
                   pipeline_vars, filter_vars, gemini_vars>>

\* os.remove(training_file_path)
Remove ==
    /\ tpc = "remove"
    /\ \E ans \in {"ok", "err"} :
           IF ans = "ok"
           THEN jsonl' = FALSE /\ tpc' = "create" /\ trained' = trained
           ELSE jsonl' = jsonl /\ TrainFails
    /\ UNCHANGED <<videos, clean_examples_count, training_file, train_called, uploaded,
                   job, pipeline_vars, filter_vars, gemini_vars>>

\* client.fine_tuning.jobs.create(...), then "return job.id"
CreateJob ==
    /\ tpc = "create"
    /\ \E ans \in {"ok", "err"} :
           IF ans = "ok"
           THEN job' = TRUE /\ trained' = JOB_ID /\ tpc' = "end"
           ELSE job' = job /\ TrainFails
    /\ UNCHANGED <<videos, jsonl, clean_examples_count, training_file, train_called,
                   uploaded, pipeline_vars, filter_vars, gemini_vars>>

TrainNext == prepare_training_data \/ CallTrain \/ Upload \/ Remove \/ CreateJob

TrainSpec == TrainInit /\ [][TrainNext]_vars

----------------------------------------------------------------------------
\* filter_videos_with_gemini.py: every row of the CSV file is put to Gemini,
\* the answer is parsed into a decision, and the rows are saved in two files.

\* str.upper(), on the characters the texts of the model are made of.
Lower == <<"a", "b", "c", "d", "e", "f", "g", "h", "i", "j", "k", "l", "m",
           "n", "o", "p", "q", "r", "s", "t", "u", "v", "w", "x", "y", "z">>
Capital == <<"A", "B", "C", "D", "E", "F", "G", "H", "I", "J", "K", "L", "M",
             "N", "O", "P", "Q", "R", "S", "T", "U", "V", "W", "X", "Y", "Z">>
upper(s) ==
    [k \in DOMAIN s |->
        IF \E n \in DOMAIN Lower : Lower[n] = s[k]
        THEN Capital[CHOOSE n \in DOMAIN Lower : Lower[n] = s[k]]
        ELSE s[k]]

\* "w in s" and s.startswith(w)
in(w, s) == \E k \in 0..(Len(s) - Len(w)) : SubSeq(s, k + 1, k + Len(w)) = w
startswith(s, w) == Len(w) <= Len(s) /\ SubSeq(s, 1, Len(w)) = w

REMOVE == <<"R", "E", "M", "O", "V", "E">>
KEEP == <<"K", "E", "E", "P">>
UNCLEAR == <<"U", "N", "C", "L", "E", "A", "R", ":", " ">>
ERROR_PREFIX == <<"E", "R", "R", "O", "R", ":", " ", "G", "e", "m", "i", "n", "i", " ", "t", "e", "x", "t", " ", "c", "a", "l", "l", " ", "f", "a", "i", "l", "e", "d", ":", " ">>

\* What model.generate_content(prompt) can do: answer with one of these texts
\* (verdicts in either case, a verdict that names both words, answers with
\* neither word, a blank answer) or raise an exception with one of these
\* messages.
Responses ==
    {<<"K", "E", "E", "P", " ", "o", "k">>,
     <<"k", "e", "e", "p">>,
     <<"R", "E", "M", "O", "V", "E", " ", "a", "d">>,
     <<" ", "R", "e", "m", "o", "v", "e", "\n">>,
     <<"K", "e", "e", "p", ",", " ", "n", "o", "t", " ", "r", "e", "m", "o", "v", "e">>,
     <<"u", "n", "s", "u", "r", "e">>,
     <<"r", "e", "m", "o", "v", " ", "e">>,
     <<" ">>}
Messages ==
    {<<"q", "u", "o", "t", "a">>,
     <<"m", "o", "d", "e", "l", " ", "r", "e", "m", "o", "v", "e", "d">>,
     <<"k", "e", "e", "p", "-", "a", "l", "i", "v", "e", " ", "l", "o", "s", "t">>}
Answers ==
    {[kind |-> "text", text |-> t] : t \in Responses}
        \cup {[kind |-> "raise", text |-> m] : m \in Messages}

\* get_text_response(prompt), the API doing ans: the stripped text of the
\* response, or the text of the error when the call raised.
get_text_response(ans) ==
    IF ans.kind = "text" THEN strip(ans.text)
    ELSE ERROR_PREFIX \o ans.text

\* Variant of should_keep_video that looks for KEEP first.
should_keep_video_keep_first(ans) ==
    LET response == get_text_response(ans)
        response_upper == upper(response)
    IN  IF in(KEEP, response_upper) \/ startswith(response_upper, KEEP)
        THEN [keep |-> TRUE, reason |-> response]
        ELSE IF in(REMOVE, response_upper) \/ startswith(response_upper, REMOVE)
        THEN [keep |-> FALSE, reason |-> response]
        ELSE [keep |-> TRUE, reason |-> UNCLEAR \o response]

\* should_keep_video(title, channel_title, tags), the API doing ans at the
\* call. (get_text_response raises no Exception, so the except clause of
\* should_keep_video is not entered.)
should_keep_video(ans) ==
    LET response == get_text_response(ans)
        response_upper == upper(response)
    IN  IF in(REMOVE, response_upper) \/ startswith(response_upper, REMOVE)
        THEN [keep |-> FALSE, reason |-> response]
        ELSE IF in(KEEP, response_upper) \/ startswith(response_upper, KEEP)
        THEN [keep |-> TRUE, reason |-> response]
        ELSE [keep |-> TRUE, reason |-> UNCLEAR \o response]

Titles == {"t1", "t2"}

GeminiInit ==
    /\ gpc = "loop"
    /\ df \in SeqUpTo([title : Titles], MaxVideos)
    /\ replies = <<>>
    /\ keep_decisions = <<>>
    /\ reasons = <<>>
    /\ kept_df = <<>>
    /\ removed_df = <<>>
    /\ PipelineOff
    /\ FilterOff
    /\ TrainOff

\* One round of "for idx, row in tqdm(df.iterrows(), ...)".
FilterRow ==
    /\ gpc = "loop"
    /\ Len(keep_decisions) < Len(df)
    /\ \E ans \in Answers :
           LET d == should_keep_video(ans) IN
           /\ replies' = Append(replies, ans)
           /\ keep_decisions' = Append(keep_decisions, d.keep)
           /\ reasons' = Append(reasons, d.reason)
    /\ UNCHANGED <<gpc, df, kept_df, removed_df, pipeline_vars, filter_vars, train_vars>>

\* The rows of df, numbered, with their decision and reason.
Decided ==
    [k \in DOMAIN df |->
        [index |-> k, title |-> df[k].title, keep |-> keep_decisions[k],
         reason |-> reasons[k]]]

\* After the loop: df['keep'], df['reason'], the two selections, and the two
\* files (the kept rows without the helper columns).
SaveResults ==
    /\ gpc = "loop"
    /\ Len(keep_decisions) = Len(df)
    /\ LET kept == SelectSeq(Decided, LAMBDA row : row.keep = TRUE)
       IN  kept_df' = [k \in DOMAIN kept |-> [index |-> kept[k].index, title |-> kept[k].title]]
    /\ removed_df' = SelectSeq(Decided, LAMBDA row : row.keep = FALSE)
    /\ gpc' = "saved"
    /\ UNCHANGED <<df, replies, keep_decisions, reasons, pipeline_vars, filter_vars, train_vars>>

GeminiNext == FilterRow \/ SaveResults

GeminiSpec == GeminiInit /\ [][GeminiNext]_vars

----------------------------------------------------------------------------
\* Vocabulary of the properties.

Success(i) == outcome[i].kind = "result" /\ outcome[i].value.type = "dict"
Skipped(i) == outcome[i] = Returned(None) /\ caught[i] # "err"
Failed(i) == outcome[i] = Returned(None) /\ caught[i] = "err"

\* The list the caller holds once the dispatcher is over.
Output == IF ret.type = "list" THEN ret.value ELSE <<>>

\* Number of positions of sequence q that hold v.
Count(q, v) == Cardinality({k \in DOMAIN q : q[k] = v})

\* Number of printed lines of kind "ERROR" that name the text t.
ErrorLines(t) == CopiesIn(Line("ERROR", t), log)

----------------------------------------------------------------------------
\* C1: every element of the list handed to the dispatcher has its worker
\* entered at most once at any time, and once the dispatcher has returned each
\* element's worker was entered exactly once and its future holds exactly one
\* terminal outcome (a record, a skip or a failure), which the loop has seen.
C1_OncePerItem ==
    /\ \A i \in Futures : calls[i] <= 1
    /\ pc = "returned" =>
           \A i \in Futures :
               /\ calls[i] = 1
               /\ fstate[i] = "FINISHED"
               /\ i \in yielded
               /\ Cardinality({o \in {"S", "K", "F"} :
                      \/ o = "S" /\ Success(i)
                      \/ o = "K" /\ Skipped(i)
                      \/ o = "F" /\ Failed(i)}) = 1

C1_Witness ==
    /\ pc = "returned" /\ N = 3
    /\ \E i, j, k \in Futures : Success(i) /\ Skipped(j) /\ Failed(k)

\* C2: the number of worker invocations started and not finished never
\* exceeds the pool's ceiling, which is at most the script's MAX_WORKERS.
C2_Ceiling ==
    /\ InFlight <= MAX_WORKERS
    /\ MAX_WORKERS <= (IF script = "fetch" THEN MAX_WORKERS_FETCH
                       ELSE MAX_WORKERS_CHANNEL)

C2_Witness ==
    /\ N > MAX_WORKERS
    /\ InFlight = MAX_WORKERS
    /\ \E i \in Futures : fstate[i] = "PENDING"

\* C3: when the dispatcher is over and some worker caught an unexpected
\* exception, every other future was run once to its end, holds a returned
\* value, and each record a sibling returned is in the returned list as often
\* as siblings returned it.
C3_FailureIsolation ==
    pc \in {"returned", "raised"} =>
        \A i \in Futures :
            caught[i] = "err" =>
                \A j \in Futures \ {i} :
                    /\ calls[j] = 1
                    /\ fstate[j] = "FINISHED"
                    /\ outcome[j].kind = "result"
                    /\ script = "fetch" /\ caught[j] = "none" => Success(j)
                    /\ Success(j) =>
                           Count(Output, outcome[j].value) =
                               Cardinality({k \in Futures : outcome[k] = outcome[j]})

C3_Witness ==
    /\ pc = "returned"
    /\ \E i, j \in Futures :
           /\ i < j /\ caught[i] = "err" /\ Success(j)
           /\ Count(Output, outcome[j].value) = 1

\* C4: no future ever holds an exception, so future.result() never raises
\* and the main thread never leaves the loop by an exception.
C4_NoEscape ==
    /\ \A i \in Futures : outcome[i].kind # "exception"
    /\ pc \notin {"unwinding", "raised"}

C4_Witness ==
    \E i \in Futures : caught[i] = "err" /\ i \in yielded /\ pc = "loop"

\* C5: a worker that caught NoTranscriptFound or TranscriptsDisabled returned
\* None, no line of kind ERROR names its item, and no record of the output
\* list is for its URL.
C5_BenignSkip ==
    \A i \in Futures :
        caught[i] \in Benign =>
            /\ outcome[i] = Returned(None)
            /\ ErrorLines(UrlText(items[i])) = 0
            /\ ErrorLines(TitleOf(items[i])) = 0
            /\ \A k \in DOMAIN all_videos_data : all_videos_data[k].url # items[i]
            /\ \A k \in DOMAIN Output : Output[k].url # items[i]

C5_Witness ==
    /\ pc = "returned"
    /\ \E i, j \in Futures :
           caught[i] = "NoTranscriptFound" /\ caught[j] = "TranscriptsDisabled"

\* The text an error line names a failed item with: the URL in
\* fetch_transcripts.py, the video's title in generate_channel_titles.py.
ErrName(url) == IF script = "fetch" THEN UrlText(url) ELSE TitleOf(url)

\* The futures of URL u whose worker caught an unexpected exception.
FailedOn(u) == {j \in Futures : items[j] = u /\ caught[j] = "err"}

C7_OnlySuccess ==
    /\ \A k \in DOMAIN all_videos_data :
           /\ all_videos_data[k].type = "dict"
           /\ \E i \in yielded : outcome[i] = Returned(all_videos_data[k])
    /\ Len(all_videos_data) = Cardinality({i \in yielded : Success(i)})
    /\ Len(all_videos_data) <= Cardinality({i \in Futures : fstate[i] = "FINISHED"})
    /\ Len(all_videos_data) <= N

C7_Witness ==
    /\ pc = "loop" /\ Len(all_videos_data) = 1
    /\ \E i, j \in yielded : Skipped(i) /\ Failed(j)

\* C8: what fetch_transcripts returns has one record for each item whose
\* three calls all succeeded and no other record, whatever the transcript
\* text (an empty one included); each record carries its item's URL, key and
\* title.
C8_OutputCoversSuccesses ==
    script = "fetch" /\ pc = "returned" =>
        /\ \A u \in URLS :
               Cardinality({k \in DOMAIN Output : Output[k].url = u}) =
                   Cardinality({i \in Futures : items[i] = u /\ caught[i] = "none"})
        /\ \A k \in DOMAIN Output :
               /\ Output[k].video_id = VideoIdOf(Output[k].url)
               /\ Output[k].title = TitleOf(Output[k].url)
        /\ \A i \in Futures :
               items[i] = "C" =>
                   \E k \in DOMAIN Output :
                       Output[k].url = "C" /\ Output[k].full_transcript = <<>>

C8_Witness ==
    /\ script = "fetch" /\ pc = "returned"
    /\ Range(items) = {"A", "B", "C"}
    /\ \E i \in Futures : items[i] = "B" /\ caught[i] = "TranscriptsDisabled"
    /\ Len(Output) = 2
    /\ {Output[k].url : k \in DOMAIN Output} = {"A", "C"}
    /\ \E k \in DOMAIN Output : Output[k].full_transcript = <<>>

\* C9: under fair scheduling the dispatcher eventually returns, and then
\* every item's future has been seen by the loop and holds a returned value.
C9_RunsToCompletion ==
    <>(/\ pc = "returned"
       /\ \A i \in Futures : i \in yielded /\ outcome[i].kind = "result")

C9_Witness ==
    /\ pc = "returned" /\ N > MAX_WORKERS
    /\ \E i \in Futures : Failed(i) /\ i < N /\ calls[N] = 1

\* C10: the dispatcher returns only when no future is pending or running, it
\* returns the list as the loop left it, and the list does not change after.
C10_FinalizedAfterAll ==
    /\ [](pc = "returned" =>
            /\ \A i \in Futures : fstate[i] = "FINISHED"
            /\ ret = List(all_videos_data))
    /\ [][pc = "returned" => all_videos_data' = all_videos_data /\ ret' = ret]_vars

C10_Witness ==
    /\ pc = "returned" /\ N = 3 /\ Len(Output) = 3

----------------------------------------------------------------------------
\* The worker function run on its own, outside any pool: the outcomes it can
\* end with for one item, over every answer the external calls can give.
psu_alone(url) ==
    UNION {LET s1 == psu_video_id(url, <<>>, a1) IN
           IF s1.next = "-" THEN {s1.out}
           ELSE UNION {LET s2 == psu_fetch(url, s1.loc, a2) IN
                       IF s2.next = "-" THEN {s2.out}
                       ELSE {psu_title(url, s2.loc, a3).out : a3 \in World[url].title}
                       : a2 \in World[url].transcript}
           : a1 \in World[url].video_id}

psv_alone(url) ==
    UNION {LET s1 == psv_fetch(VideoInfo(url), <<>>, a1) IN
           IF s1.next = "-" THEN {s1.out}
           ELSE {psv_generate(VideoInfo(url), s1.loc, a2).out : a2 \in World[url].gen}
           : a1 \in World[url].transcript}

Alone(url) == IF script = "fetch" THEN psu_alone(url) ELSE psv_alone(url)

\* C11: schedule independence. For every item whose external calls leave the
\* worker one possible outcome, the list a run returns holds that outcome's
\* record once per dispatched occurrence of the item when it is a Success
\* record and nothing for the item otherwise, under every interleaving and
\* completion order: the returned multiset is a function of the items alone.
C11_ScheduleIndependent ==
    pc = "returned" =>
        /\ Len(Output) <= N
        /\ \A u \in URLS :
               Cardinality(Alone(u)) = 1 =>
                   LET r == CHOOSE x \in Alone(u) : TRUE IN
                   IF r.value.type = "dict"
                   THEN Count(Output, r.value) = Count(items, u)
                   ELSE \A k \in DOMAIN Output : Output[k].url # u

\* Two Success records returned in the order opposite to their submission.
C11_Witness ==
    /\ pc = "returned"
    /\ N = 2
    /\ Len(Output) = 2
    /\ items[1] # items[2]
    /\ Output[1].url = items[2]
    /\ Output[2].url = items[1]

----------------------------------------------------------------------------
\* The text of snippets laid out position by position: snippet k takes the
\* positions after those of the snippets before it and of one separator each,
\* and one space follows every snippet but the last.
RECURSIVE SumLen(_, _)
SumLen(texts, k) == IF k = 0 THEN 0 ELSE SumLen(texts, k - 1) + Len(texts[k])

Spaced(texts) ==
    LET n == Len(texts)
        \* the position just before snippet k, and that of the separator after it
        before == [k \in 1..n |-> SumLen(texts, k - 1) + (k - 1)]
        after == [k \in 1..n |-> before[k] + Len(texts[k]) + 1]
        total == IF n = 0 THEN 0 ELSE after[n] - 1
    IN  [p \in 1..total |->
            LET k == CHOOSE j \in 1..n : before[j] < p /\ p <= after[j]
            IN  IF p = after[k] THEN " " ELSE texts[k][p - before[k]]]

\* A text without its leading and trailing whitespace: what lies between its
\* first and its last character that is not whitespace.
Trimmed(t) ==
    IF \A p \in DOMAIN t : t[p] \in Whitespace THEN <<>>
    ELSE SubSeq(t,
                CHOOSE p \in DOMAIN t :
                    t[p] \notin Whitespace /\ \A q \in 1..(p - 1) : t[q] \in Whitespace,
                CHOOSE p \in DOMAIN t :
                    t[p] \notin Whitespace /\ \A q \in (p + 1)..Len(t) : t[q] \in Whitespace)

\* What the snippets held for url make under the rule above.
Body(url) == Trimmed(Spaced(TextsOf(transcripts[url])))

\* C12: the text body of every Success record returned is the snippets' texts
\* in their given order, one space between neighbours, without leading and
\* trailing whitespace; the channel script works on the same text (it hands
\* it to the title generation and records its length).
C12_JoinedBody ==
    /\ pc = "returned" =>
           \A k \in DOMAIN Output :
               IF script = "fetch"
               THEN Output[k].full_transcript = Body(Output[k].url)
               ELSE Output[k].transcript_length = Len(Body(Output[k].url))
    /\ \A i \in Futures :
           script = "channel" /\ at[i] = "generate" =>
               loc[i].full_transcript = Body(items[i])

\* The snippets "Hello", "world" have given the body "Hello world".
C12_Witness ==
    /\ script = "fetch"
    /\ N = 1
    /\ transcripts[items[1]] = <<"Hello", "world">>
    /\ pc = "returned"
    /\ Len(Output) = 1
    /\ Output[1].full_transcript =
           <<"H", "e", "l", "l", "o", " ", "w", "o", "r", "l", "d">>

----------------------------------------------------------------------------
\* The order in which process_single_url comes to its external calls: from
\* the start to the resolution of the identifier, from there to the transcript
\* request, from there to the title request, and from anywhere out.
CallOrder ==
    {<<"-", "video_id">>, <<"video_id", "fetch">>, <<"fetch", "title">>,
     <<"video_id", "-">>, <<"fetch", "-">>, <<"title", "-">>}

\* C13: a worker invocation of fetch_transcripts.py stands before the
\* transcript request only when the resolution came back successfully, and
\* before the title request only when the transcript request did (neither
\* failed nor a benign skip); it passes the three calls in this order only,
\* and makes no call once one has failed.
C13_CallsInOrder ==
    /\ [](script = "fetch" =>
            \A i \in Futures :
                /\ at[i] \in {"fetch", "title"} => answered[i] = "ok"
                /\ (answered[i] \notin {"-", "ok"}) => at[i] = "-" /\ fstate[i] = "FINISHED")
    /\ [][script = "fetch" /\ script' = "fetch" =>
            \A i \in DOMAIN at \cap DOMAIN at' :
                at'[i] # at[i] => <<at[i], at'[i]>> \in CallOrder]_vars

\* One invocation stands before the title request while another has ended at
\* the transcript request with a benign skip and a third at a failed call.
C13_Witness ==
    /\ script = "fetch"
    /\ \E i, j, k \in Futures :
           /\ at[i] = "title"
           /\ answered[j] \in Benign
           /\ answered[k] = "err" /\ fstate[k] = "FINISHED"

----------------------------------------------------------------------------
\* The futures whose worker was entered for identifier u.
DispatchedFor(u) == {i \in Futures : items[i] = u /\ calls[i] > 0}

\* C14: identifiers have set semantics before dispatch: in both scripts the
\* worker is entered at most once per distinct identifier, however often the
\* item source holds it. (fetch_transcripts.py passes its lines through
\* list(set(...)); process_channel_videos dispatches the list of
\* get_channel_videos as it is, so a video listed twice is processed twice.)
C14_OncePerIdentifier ==
    \A u \in URLS : Cardinality(DispatchedFor(u)) <= 1

----------------------------------------------------------------------------
\* The futures of the videos whose transcript request hangs.
WillHang == {i \in Futures : items[i] \in hang}

\* The loop of the dispatcher takes future i in this step.
Yields(i) == i \notin yielded /\ yielded' = yielded \cup {i}

\* While a call is hung the dispatcher does not return.
NeverReturnsWhileHung == [](Hung # {} => pc \notin {"returned", "raised"})

\* With fewer hung calls than pool threads every other item is worked to its
\* end and reaches the loop, a Success record reaching the list.
OthersGetThrough ==
    <>(/\ pc \in {"loop", "returned"}
       /\ Cardinality(WillHang) < MAX_WORKERS =>
              \A i \in Futures \ WillHang :
                  /\ fstate[i] = "FINISHED" /\ i \in yielded
                  /\ Success(i) => Count(all_videos_data, outcome[i].value) > 0)

\* C15 as stated: a hung call blocks only its own task; what completes while
\* it is blocked is taken by the loop in completion order, every other item
\* gets through while fewer than W calls are hung, and the dispatcher never
\* returns while a call is hung.
C15_CompletionOrder ==
    /\ [][\A i \in DOMAIN fstate :
              Yields(i) /\ (\E k \in DOMAIN completed : completed[k] = i) =>
                  i = Head(completed)]_vars
    /\ NeverReturnsWhileHung
    /\ OthersGetThrough

\* C15, amended: what completes while a call is blocked is taken by the loop
\* in the order as_completed yields: the futures already finished when the
\* loop starts in any order, every later one in completion order.
C15_YieldOrder ==
    /\ [][\A i \in DOMAIN fstate :
              Yields(i) /\ (\E k \in DOMAIN completed : completed[k] = i) =>
                  i \in finished \/ i = Head(completed)]_vars
    /\ NeverReturnsWhileHung
    /\ OthersGetThrough

\* A call is hung and a later item has been worked, taken by the loop and
\* its record appended.
C15_Witness ==
    /\ pc = "loop"
    /\ \E i \in Hung : \E j \in Futures :
           /\ i < j
           /\ j \in yielded
           /\ Success(j)
           /\ Count(all_videos_data, outcome[j].value) = 1

----------------------------------------------------------------------------
\* C16: the progress counter is the number of tasks the loop has taken,
\* whatever their outcome; it never goes back, moves by one and only in a step
\* that takes a task, never exceeds the total N and equals N when the
\* dispatcher has returned. (It is read by no step: no guard and no other
\* assignment of the model mentions it.)
C16_ProgressCounts ==
    /\ [](/\ ndone = Cardinality(yielded)
          /\ ndone <= N
          /\ pc = "returned" => ndone = N)
    /\ [][\/ ndone' = ndone
          \/ ndone' = ndone + 1 /\ \E i \in DOMAIN fstate : Yields(i)]_vars

\* A run over a succeeding, a skipped and a failed task has returned with the
\* counter at 3.
C16_Witness ==
    /\ pc = "returned"
    /\ N = 3
    /\ ndone = 3
    /\ \E i, j, k \in Futures : Success(i) /\ Skipped(j) /\ Failed(k)

----------------------------------------------------------------------------
\* A step of the pool thread that runs future i.
WorkerStep(i) == WorkerStart(i) \/ process_single_url(i) \/ process_single_video(i)

\* C17: workers share no written state. A step of the thread running future
\* i leaves the output list, the loop's position and bookkeeping, the items
\* and every other future's state, locals and outcome as they are; the output
\* list changes only in a step of the loop, by the append of the outcome of
\* the future it takes; and so at return every Success outcome is in the list
\* as often as it was produced, and nothing else is.
C17_NoSharedWrites ==
    /\ [][\A i \in DOMAIN fstate :
              WorkerStep(i) =>
                  /\ UNCHANGED <<all_videos_data, ret, pc, items, nsub, yielded, ndone,
                                 installed, finished>>
                  /\ \A j \in DOMAIN fstate \ {i} :
                         /\ fstate'[j] = fstate[j] /\ at'[j] = at[j] /\ loc'[j] = loc[j]
                         /\ outcome'[j] = outcome[j] /\ caught'[j] = caught[j]
                         /\ calls'[j] = calls[j] /\ answered'[j] = answered[j]]_vars
    /\ [][all_videos_data' # all_videos_data =>
              /\ pc = "loop"
              /\ \E i \in DOMAIN fstate :
                     /\ Yields(i)
                     /\ all_videos_data' = Append(all_videos_data, outcome[i].value)]_vars
    /\ [](pc = "returned" =>
              /\ \A i \in Futures :
                     Success(i) =>
                         Count(Output, outcome[i].value)
                             = Cardinality({j \in Futures : outcome[j] = outcome[i]})
              /\ \A k \in DOMAIN Output : \E i \in Futures : outcome[i].value = Output[k])

\* Two workers are inside their function at once while the list already holds
\* a record.
C17_Witness ==
    /\ \E i, j \in Running : i # j /\ at[i] # "-" /\ at[j] # "-"
    /\ all_videos_data # <<>>

----------------------------------------------------------------------------
\* process_single_video has announced the title generation for future i (the
\* line it prints just before it calls generate_title).
Announced(i) == CopiesIn(Line("Generating title", TitleOf(items[i])), log) > 0

\* C18: in the channel script generate_title is called only after the
\* transcript was fetched and its trimmed text has at least 200 characters,
\* never for a missing, disabled, failed or shorter transcript; and the worker
\* ends with a record exactly when that call was made and gave a title that
\* is not empty (None and the empty title give no record).
C18_RecordIffTitled ==
    script = "channel" /\ N = 1 =>
        \A i \in Futures :
            /\ at[i] = "generate" =>
                   /\ answered[i] = "ok"
                   /\ Announced(i)
                   /\ Len(Body(items[i])) >= MIN_TRANSCRIPT_LEN
            /\ Announced(i) => at[i] = "generate" \/ fstate[i] = "FINISHED"
            /\ pc = "returned" =>
                   /\ ~Announced(i) =>
                          \/ answered[i] # "ok"
                          \/ Len(Body(items[i])) < MIN_TRANSCRIPT_LEN
                   /\ Success(i) <=>
                          /\ Announced(i)
                          /\ answered[i] = "ok"
                          /\ Trimmed(World[items[i]].generated) # <<>>
                   /\ Len(Output) = IF Success(i) THEN 1 ELSE 0

\* A record was made from a transcript of exactly 200 characters.
C18_Witness ==
    /\ script = "channel"
    /\ N = 1
    /\ pc = "returned"
    /\ Len(Output) = 1
    /\ Len(Body(items[1])) = MIN_TRANSCRIPT_LEN

----------------------------------------------------------------------------
\* The rows written to standard output.
RowsOut == IF stdout.type = "list" THEN stdout.value ELSE <<>>

\* The rows of the file that are to be kept: those of category 28 with no
\* earlier row of category 28 for the same video.
Kept ==
    {k \in DOMAIN csv :
        /\ csv[k].categoryId = CATEGORY
        /\ \A j \in 1..(k - 1) :
               ~(csv[j].categoryId = CATEGORY /\ csv[j].video_id = csv[k].video_id)}

\* C19: when filter_category_28.py ends, the rows it has written are exactly
\* the category-28 rows of the file, one per video, namely the first such row
\* of each video, in file order; this is what filtering the whole file as one
\* chunk gives, whatever the chunk size.
C19_FilterByChunks ==
    fpc \in {"done", "exit0"} =>
        /\ Len(RowsOut) = Cardinality(Kept)
        /\ \A k \in Kept :
               RowsOut[Cardinality({j \in Kept : j < k}) + 1] = OUTPUT_COLUMNS(csv[k])
        /\ RowsOut = drop_duplicates(filter(csv))

\* The file was read in more than one chunk, one of them without a matching
\* row, and a video's rows of category 28 lie in different chunks.
C19_Witness ==
    /\ fpc = "done"
    /\ chunk_size = 2
    /\ Len(csv) = 4
    /\ Len(filtered_chunks) = 2
    /\ csv[1].categoryId = CATEGORY
    /\ csv[2].categoryId # CATEGORY
    /\ csv[3].categoryId = CATEGORY /\ csv[3].video_id = csv[1].video_id
    /\ csv[4].categoryId = CATEGORY /\ csv[4].video_id # csv[1].video_id
    /\ Len(RowsOut) = 2

----------------------------------------------------------------------------
\* C20: the fine-tuning submission follows a fixed order. prepare_training_data
\* returns the file path only when at least 10 examples were written, and
\* otherwise None, and then train_model is not called; the job is created
\* only in a state where the upload has succeeded and the local file is
\* gone; when the upload fails no job is created and the local file stays;
\* and train_model ends with None after any failure, never with an exception.
C20_SubmissionOrder ==
    /\ [](/\ training_file = JSONL_PATH => clean_examples_count >= 10 /\ (jsonl \/ uploaded)
          /\ tpc # "main" /\ training_file # JSONL_PATH =>
                 /\ training_file = None
                 /\ ~train_called /\ ~uploaded /\ ~job
                 /\ jsonl => clean_examples_count < 10
          /\ train_called => training_file = JSONL_PATH
          /\ job => uploaded /\ ~jsonl
          /\ tpc = "end" /\ train_called =>
                 /\ ~uploaded => ~job /\ jsonl
                 /\ ~job => trained = None
                 /\ job => trained = JOB_ID)
    /\ [][job' /\ ~job => uploaded /\ ~jsonl /\ tpc = "create"]_vars
    /\ [][uploaded' /\ ~uploaded => tpc = "upload" /\ jsonl /\ ~job]_vars

\* The upload of a file of ten examples succeeded, the file was removed and
\* the job was created.
C20_Witness ==
    /\ tpc = "end"
    /\ clean_examples_count = 10
    /\ uploaded /\ ~jsonl /\ job
    /\ trained = JOB_ID

----------------------------------------------------------------------------
\* The Gemini filter.

\* The text says the word (given in capitals) somewhere, in any mix of cases.
Says(text, word) ==
    \E k \in 0..(Len(text) - Len(word)) :
        \A j \in DOMAIN word :
            \/ text[k + j] = word[j]
            \/ \E n \in DOMAIN Capital : Capital[n] = word[j] /\ Lower[n] = text[k + j]

\* The row numbers of a saved selection.
Indexes(selection) == {selection[k].index : k \in DOMAIN selection}

\* C21: should_keep_video removes the video exactly when the response says
\* REMOVE in any case, also when it says or begins with KEEP as well; otherwise
\* the video is kept, with the response as the reason when it says KEEP and
\* with "UNCLEAR: " before the response when it says neither word. The main
\* loop records one decision per row, and the saved kept rows and removed
\* rows partition the rows of the input.
C21_DecisionRule ==
    /\ Len(keep_decisions) = Len(replies)
    /\ Len(reasons) = Len(replies)
    /\ Len(replies) <= Len(df)
    /\ \A k \in DOMAIN replies :
           LET response == get_text_response(replies[k]) IN
           /\ keep_decisions[k] = ~Says(response, REMOVE)
           /\ reasons[k] = IF Says(response, REMOVE) \/ Says(response, KEEP)
                           THEN response
                           ELSE UNCLEAR \o response
    /\ gpc = "saved" =>
           /\ Len(keep_decisions) = Len(df)
           /\ Indexes(kept_df) \cup Indexes(removed_df) = DOMAIN df
           /\ Indexes(kept_df) \cap Indexes(removed_df) = {}
           /\ Len(kept_df) + Len(removed_df) = Len(df)
           /\ \A k \in DOMAIN df : (k \in Indexes(kept_df)) = keep_decisions[k]
           /\ \A k \in DOMAIN kept_df : kept_df[k].title = df[kept_df[k].index].title
           /\ \A k \in DOMAIN removed_df : removed_df[k].title = df[removed_df[k].index].title

\* Saved: a row whose response begins with KEEP and says REMOVE is among the
\* removed rows, and a row whose response says neither word is among the kept.
C21_Witness ==
    /\ gpc = "saved"
    /\ \E k \in DOMAIN df :
           /\ replies[k].kind = "text"
           /\ startswith(upper(replies[k].text), KEEP)
           /\ Says(replies[k].text, REMOVE)
           /\ k \in Indexes(removed_df)
    /\ \E k \in DOMAIN df :
           /\ replies[k].kind = "text"
           /\ ~Says(replies[k].text, REMOVE)
           /\ ~Says(replies[k].text, KEEP)
           /\ startswith(reasons[k], UNCLEAR)
           /\ k \in Indexes(kept_df)

\* C22: a video whose Gemini call failed, whatever the error message, is
\* decided keep = True and is among the rows saved as kept.
C22_FailOpen ==
    \A k \in DOMAIN replies :
        replies[k].kind = "raise" =>
            /\ keep_decisions[k] = TRUE
            /\ gpc = "saved" => k \in Indexes(kept_df)

====
